---- MODULE Spec2Model ----
(***************************************************************************)
(* A model of the browser smoke-test harness:                              *)
(*   - page_objects/base_page.py : BasePage, the wait-aware wrapper        *)
(*   - conftest.py               : the `browser` fixture                   *)
(*   - tests/test_google.py      : test_google_homepage                    *)
(*   - utils/logger.py           : get_logger                              *)
(* The browser driver (selenium) is the environment: what a driver call    *)
(* answers is decided by the state of the page at the time of the call,    *)
(* which the caller of an operation picks.                                 *)
(***************************************************************************)
EXTENDS Integers, Sequences, FiniteSets, TLC

(* ------------------------------ bounds -------------------------------- *)
MaxRetries == 3
MaxTests == 2
MaxClock == 2
MaxHandlers == 3
MaxEmit == 3

(* click(self, locator, retries=2) *)
DefaultRetries == 2

RetriesValues == (-1 .. MaxRetries) \cup {DefaultRetries}

(* A locator is an opaque (strategy, value) pair.  The last one is a       *)
(* selector the driver cannot parse.                                       *)
Locators == { <<"name", "q">>, <<"id", "submit">>, <<"xpath", "//[">> }

Valid(locator) == locator # <<"xpath", "//[">>

(* What the page holds for a (valid) locator at the time of one wait:      *)
(*   absent    - no such node                                              *)
(*   hidden    - in the DOM, not displayed                                 *)
(*   obscured  - displayed and enabled, covered by another node            *)
(*   stale     - found, then detached before it is used                    *)
(*   clickable - displayed, enabled, reachable                             *)
ElementStates == {"absent", "hidden", "obscured", "stale", "clickable"}

Texts == {"hello", ""}

AlertTexts == {"Leave page?", "Saved"}

NoAlert == "<no alert>"

None == "None"

VARIABLES
    (* BasePage: the operation in progress *)
    pc, op, attempt, calls, outcomes, result, exc, alert, alertSeen,
    (* records logged by the operation / the test in progress *)
    log,
    (* conftest.browser and test_google_homepage *)
    fx, test, title, driverBound, navigated, quitCalls, setupFail, fxExit, testNo,
    (* utils.logger *)
    clock, handlers, files, emitted

pageVars == <<pc, op, attempt, calls, outcomes, result, exc, alert, alertSeen>>
sessVars == <<fx, test, title, driverBound, navigated, quitCalls, setupFail, fxExit, testNo>>
sinkVars == <<clock, handlers, files, emitted>>
vars == <<pageVars, log, sessVars, sinkVars>>

(* ------------------------------ logging ------------------------------- *)
(* One record of the log: the level, the message (by its fixed part), and  *)
(* the values formatted into it.                                           *)
Rec(level, event, locator, n, of, text) ==
    [level |-> level, event |-> event, locator |-> locator, n |-> n, of |-> of, text |-> text]

NoLoc == <<>>

Say(level, event) == Rec(level, event, NoLoc, 0, 0, "")
SayLoc(level, event, locator) == Rec(level, event, locator, 0, 0, "")

Select(s, level) == SelectSeq(s, LAMBDA r : r.level = level)

Max(a, b) == IF a > b THEN a ELSE b

(* ------------------------- the driver's answers ----------------------- *)
(* WebDriverWait(driver, 10).until(EC.<cond>(locator)): the element, or    *)
(* the exception the wait ends with.  The wait swallows only "no such      *)
(* element"; a selector error ends it at once.                             *)
WaitUntil(cond, locator, st) ==
    IF ~Valid(locator) THEN "InvalidSelectorException"
    ELSE IF cond = "presence" THEN
        IF st = "absent" THEN "TimeoutException" ELSE "element"
    ELSE (* "visibility", "clickable" *)
        IF st \in {"absent", "hidden"} THEN "TimeoutException" ELSE "element"

(* element.click() *)
ElementClick(st) ==
    CASE st = "clickable" -> "ok"
      [] st = "obscured"  -> "ElementClickInterceptedException"
      [] st = "stale"     -> "StaleElementReferenceException"
      [] OTHER            -> "ElementNotInteractableException"

(* element.clear(), element.send_keys(text) *)
ElementType(st) ==
    CASE st \in {"clickable", "obscured"} -> "ok"
      [] st = "stale"  -> "StaleElementReferenceException"
      [] OTHER         -> "ElementNotInteractableException"

(* element.text, execute_script(..., element) *)
ElementUse(st) ==
    IF st = "stale" THEN "StaleElementReferenceException" ELSE "ok"

(* driver.find_element(locator) *)
FindElement(locator, st) ==
    IF ~Valid(locator) THEN "InvalidSelectorException"
    ELSE IF st = "absent" THEN "NoSuchElementException" ELSE "element"

(* ------------------------------ BasePage ------------------------------ *)
Quiet == pc \in {"idle", "returned", "raised"}

Call(name, locator, retries, text, clear, accept, st) ==
    [name |-> name, locator |-> locator, retries |-> retries,
     text |-> text, clear |-> clear, accept |-> accept, st |-> st]

Return(value) == pc' = "returned" /\ result' = value /\ exc' = "none"
Raise(e) == pc' = "raised" /\ result' = None /\ exc' = e

(* click(locator, retries): entry *)
ClickCall(locator, retries) ==
    /\ Quiet
    /\ op' = Call("click", locator, retries, "", FALSE, FALSE, "")
    /\ attempt' = 0
    /\ calls' = <<>>
    /\ outcomes' = <<>>
    /\ log' = <<>>
    /\ pc' = "click_for"
    /\ result' = None
    /\ exc' = "none"
    /\ UNCHANGED <<alert, alertSeen, sessVars, sinkVars>>

(* a variant that lets a stale element through *)
ClickCaught_NoStale == {"TimeoutException", "ElementClickInterceptedException"}

ClickCaught == {"TimeoutException", "ElementClickInterceptedException",
                "StaleElementReferenceException"}

(* the outcome of one pass through the try block of click *)
ClickTry(locator, st) ==
    LET w == WaitUntil("clickable", locator, st)
    IN  IF w # "element" THEN w ELSE ElementClick(st)

(* the driver calls one pass makes *)
ClickTryCalls(locator, st) ==
    IF WaitUntil("clickable", locator, st) = "element" THEN <<"wait", "click">> ELSE <<"wait">>

(* a variant that numbers the attempts from 0 *)
ClickWarning_FromZero(locator, i, retries, e) ==
    Rec("WARNING", "Click failed", locator, i, retries, e)

(* the warning of the except branch: attempt is the loop variable (from 0) *)
ClickWarning(locator, i, retries, e) ==
    Rec("WARNING", "Click failed", locator, i + 1, retries, e)

(* click: one iteration of `for attempt in range(retries)` *)
ClickAttempt(st) ==
    /\ pc = "click_for"
    /\ attempt < op.retries
    /\ LET o == ClickTry(op.locator, st)
       IN  /\ outcomes' = Append(outcomes, o)
           /\ IF o = "ok"
              THEN /\ calls' = calls \o ClickTryCalls(op.locator, st)
                   /\ log' = Append(log, SayLoc("INFO", "Clicked on", op.locator))
                   /\ attempt' = attempt
                   /\ Return(None)
              ELSE IF o \in ClickCaught
              THEN /\ calls' = calls \o ClickTryCalls(op.locator, st) \o <<"sleep">>
                   /\ log' = Append(log, ClickWarning(op.locator, attempt, op.retries, o))
                   /\ attempt' = attempt + 1
                   /\ UNCHANGED <<pc, result, exc>>
              ELSE /\ calls' = calls \o ClickTryCalls(op.locator, st)
                   /\ log' = log
                   /\ attempt' = attempt
                   /\ Raise(o)
    /\ UNCHANGED <<op, alert, alertSeen, sessVars, sinkVars>>

(* click: the loop is over without a return *)
ClickExhausted ==
    /\ pc = "click_for"
    /\ ~(attempt < op.retries)
    /\ log' = Append(log, Rec("ERROR", "Click failed after retries", op.locator, 0, op.retries, ""))
    /\ Raise("Exception")
    /\ UNCHANGED <<op, attempt, calls, outcomes, alert, alertSeen, sessVars, sinkVars>>

(* an operation that runs in one step: what it did and how it ended *)
Finish(call, made, logged, ending, value) ==
    /\ Quiet
    /\ op' = call
    /\ attempt' = 0
    /\ calls' = made
    /\ outcomes' = <<>>
    /\ log' = logged
    /\ IF ending = "return" THEN Return(value) ELSE Raise(ending)
    /\ UNCHANGED <<sessVars, sinkVars>>

(* a variant that clears whatever the flag says *)
Typing_AlwaysClear(clear) == <<"clear", "send_keys">>

(* the element calls of enter_text, in order *)
Typing(clear) == IF clear THEN <<"clear", "send_keys">> ELSE <<"send_keys">>

(* enter_text(locator, text, clear) *)
EnterText(locator, text, clear, st) ==
    LET c == Call("enter_text", locator, 0, text, clear, FALSE, st)
        w == WaitUntil("presence", locator, st)
    IN  /\ IF w = "TimeoutException"
           THEN Finish(c, <<"wait">>,
                       <<SayLoc("ERROR", "Timeout: Unable to enter text in", locator)>>,
                       "Exception", None)
           ELSE IF w # "element"
           THEN Finish(c, <<"wait">>, <<>>, w, None)
           ELSE IF ElementType(st) # "ok"
           THEN Finish(c, <<"wait", Head(Typing(clear))>>, <<>>, ElementType(st), None)
           ELSE Finish(c, <<"wait">> \o Typing(clear),
                       <<Rec("INFO", "Entered text", locator, 0, 0, text)>>,
                       "return", None)
        /\ UNCHANGED <<alert, alertSeen>>

(* get_text(locator) *)
GetText(locator, st, text) ==
    LET c == Call("get_text", locator, 0, "", FALSE, FALSE, st)
        w == WaitUntil("visibility", locator, st)
    IN  /\ IF w = "TimeoutException"
           THEN Finish(c, <<"wait">>,
                       <<SayLoc("ERROR", "Timeout: Unable to get text from", locator)>>,
                       "Exception", None)
           ELSE IF w # "element"
           THEN Finish(c, <<"wait">>, <<>>, w, None)
           ELSE IF ElementUse(st) # "ok"
           THEN Finish(c, <<"wait", "text">>, <<>>, ElementUse(st), None)
           ELSE Finish(c, <<"wait", "text">>,
                       <<Rec("INFO", "Retrieved text", locator, 0, 0, text)>>,
                       "return", text)
        /\ UNCHANGED <<alert, alertSeen>>

(* is_element_present(locator) *)
IsElementPresent(locator, st) ==
    LET c == Call("is_element_present", locator, 0, "", FALSE, FALSE, st)
        f == FindElement(locator, st)
    IN  /\ IF f = "element"
           THEN Finish(c, <<"find_element">>,
                       <<SayLoc("INFO", "Element is present", locator)>>, "return", "True")
           ELSE IF f = "NoSuchElementException"
           THEN Finish(c, <<"find_element">>,
                       <<SayLoc("WARNING", "Element is NOT present", locator)>>, "return", "False")
           ELSE Finish(c, <<"find_element">>, <<>>, f, None)
        /\ UNCHANGED <<alert, alertSeen>>

(* scroll_to_element(locator) *)
ScrollToElement(locator, st) ==
    LET c == Call("scroll_to_element", locator, 0, "", FALSE, FALSE, st)
        w == WaitUntil("presence", locator, st)
    IN  /\ IF w = "TimeoutException"
           THEN Finish(c, <<"wait">>,
                       <<SayLoc("ERROR", "Timeout: Unable to scroll to", locator)>>,
                       "Exception", None)
           ELSE IF w # "element"
           THEN Finish(c, <<"wait">>, <<>>, w, None)
           ELSE IF ElementUse(st) # "ok"
           THEN Finish(c, <<"wait", "execute_script">>, <<>>, ElementUse(st), None)
           ELSE Finish(c, <<"wait", "execute_script">>,
                       <<SayLoc("INFO", "Scrolled to element", locator)>>, "return", None)
        /\ UNCHANGED <<alert, alertSeen>>

(* the classes `except WebDriverException` catches, of those the driver    *)
(* raises here *)
WebDriverExceptions ==
    {"WebDriverException", "NoAlertPresentException", "TimeoutException",
     "InvalidSelectorException", "NoSuchElementException", "JavascriptException",
     "ElementClickInterceptedException", "StaleElementReferenceException",
     "ElementNotInteractableException", "SessionNotCreatedException"}

(* driver.switch_to.alert: the alert, or no alert to switch to *)
SwitchToAlert(a) == IF a = NoAlert THEN "NoAlertPresentException" ELSE "alert"

(* a variant with the two branches swapped *)
AlertAction_Swapped(accept) == IF accept THEN "dismiss" ELSE "accept"

(* the call handle_alert makes on the alert it found *)
AlertAction(accept) == IF accept THEN "accept" ELSE "dismiss"

(* handle_alert(accept), the page showing alert a (or none) *)
HandleAlert(accept, a) ==
    LET c == Call("handle_alert", NoLoc, 0, "", FALSE, accept, "")
        s == SwitchToAlert(a)
    IN  /\ alertSeen' = a
        /\ IF s = "alert"
           THEN /\ Finish(c, <<"switch_to.alert", "text", AlertAction(accept)>>,
                          <<Rec("INFO", IF accept THEN "Alert accepted" ELSE "Alert dismissed",
                                NoLoc, 0, 0, a)>>,
                          "return", a)
                /\ alert' = NoAlert
           ELSE IF s \in WebDriverExceptions
           THEN /\ Finish(c, <<"switch_to.alert">>,
                          <<Say("WARNING", "No alert found")>>, "return", None)
                /\ alert' = a
           ELSE /\ Finish(c, <<"switch_to.alert">>, <<>>, s, None)
                /\ alert' = a

ReadyStates == {"complete", "loading", "script error"}

(* wait_for_page_load(timeout), document.readyState staying at `ready` *)
WaitForPageLoad(ready) ==
    LET c == Call("wait_for_page_load", NoLoc, 0, "", FALSE, FALSE, ready)
    IN  /\ CASE ready = "complete" ->
                  Finish(c, <<"wait">>, <<Say("INFO", "Page fully loaded")>>, "return", None)
             [] ready = "loading" ->
                  Finish(c, <<"wait">>,
                         <<Say("ERROR", "Timeout: Page did not load completely")>>,
                         "return", None)
             [] OTHER ->
                  Finish(c, <<"wait">>, <<>>, "JavascriptException", None)
        /\ UNCHANGED <<alert, alertSeen>>

ClickCalled == \E l \in Locators, r \in RetriesValues : ClickCall(l, r)
ClickAttempted == \E st \in ElementStates : ClickAttempt(st)
EnterTextCalled ==
    \E l \in Locators, t \in Texts, c \in BOOLEAN, st \in ElementStates : EnterText(l, t, c, st)
GetTextCalled == \E l \in Locators, st \in ElementStates, t \in Texts : GetText(l, st, t)
IsElementPresentCalled == \E l \in Locators, st \in ElementStates : IsElementPresent(l, st)
ScrollToElementCalled == \E l \in Locators, st \in ElementStates : ScrollToElement(l, st)
HandleAlertCalled == \E b \in BOOLEAN, a \in AlertTexts \cup {NoAlert} : HandleAlert(b, a)
WaitForPageLoadCalled == \E r \in ReadyStates : WaitForPageLoad(r)

NextPage ==
    \/ ClickCalled
    \/ ClickAttempted
    \/ ClickExhausted
    \/ EnterTextCalled
    \/ GetTextCalled
    \/ IsElementPresentCalled
    \/ ScrollToElementCalled
    \/ HandleAlertCalled
    \/ WaitForPageLoadCalled

Init ==
    /\ pc = "idle"
    /\ op = Call("none", NoLoc, 0, "", FALSE, FALSE, "")
    /\ attempt = 0
    /\ calls = <<>>
    /\ outcomes = <<>>
    /\ result = None
    /\ exc = "none"
    /\ alert = NoAlert
    /\ alertSeen = NoAlert
    /\ log = <<>>
    /\ fx = "start"
    /\ test = "notrun"
    /\ title = <<>>
    /\ driverBound = FALSE
    /\ navigated = FALSE
    /\ quitCalls = 0
    /\ setupFail = "none"
    /\ fxExit = "none"
    /\ testNo = 1
    /\ clock = 0
    /\ handlers = <<>>
    /\ files = <<>>
    /\ emitted = 0

SpecPage == Init /\ [][NextPage]_vars

(* --------------------- conftest.py: the fixture ----------------------- *)
(* The statements of the try block that call the driver, in order.         *)
InitSteps == <<"Chrome", "implicitly_wait", "get">>

(* What a failing step raises: a driver error, or (an exec-format error of *)
(* the driver binary, a dropped connection to it) an error that is no      *)
(* WebDriverException.                                                     *)
InitErrors == {"SessionNotCreatedException", "WebDriverException", "OSError"}

QuitOutcomes == {"ok", "WebDriverException"}

StepNo(step) == CHOOSE i \in 1 .. Len(InitSteps) : InitSteps[i] = step

(* the records the try block logs before it fails at `step` (0: nowhere) *)
SetupLog(failAt) ==
    <<Say("INFO", "Starting the browser setup...")>> \o
    (IF failAt = 0 \/ failAt >= StepNo("get")
     THEN <<Say("INFO", "Navigating to Google homepage")>> ELSE <<>>)

(* a variant that fails the test without logging the error *)
SetupHandler_Silent(e) ==
    IF e \in WebDriverExceptions
    THEN [logs |-> <<>>, raised |-> "Failed"]
    ELSE [logs |-> <<>>, raised |-> e]

(* except WebDriverException as e: what it logs and what leaves it *)
SetupHandler(e) ==
    IF e \in WebDriverExceptions
    THEN [logs |-> <<Rec("ERROR", "Failed to initialize the browser or load the page",
                         NoLoc, 0, 0, e)>>,
          raised |-> "Failed"]
    ELSE [logs |-> <<>>, raised |-> e]

(* a variant that quits only when quit() is known to work *)
Finally_NoQuit(bound, q) ==
    IF bound /\ q = "ok"
    THEN [quits |-> 1, logs |-> <<Say("INFO", "Browser closed after the test.")>>,
          raised |-> "none"]
    ELSE [quits |-> 0, logs |-> <<>>, raised |-> "none"]

(* finally: quit the driver if the name was bound; q is what quit() does *)
Finally(bound, q) ==
    IF bound
    THEN [quits |-> 1,
          logs |-> IF q = "ok" THEN <<Say("INFO", "Browser closed after the test.")>> ELSE <<>>,
          raised |-> IF q = "ok" THEN "none" ELSE q]
    ELSE [quits |-> 0, logs |-> <<>>, raised |-> "none"]

(* browser(): from the call to the yield *)
BrowserSetup ==
    /\ fx = "start"
    /\ log' = SetupLog(0)
    /\ driverBound' = TRUE
    /\ navigated' = TRUE
    /\ fx' = "active"
    /\ UNCHANGED <<test, title, quitCalls, setupFail, fxExit, testNo, pageVars, sinkVars>>

(* browser(): a step of the try block raises e; except and finally run *)
BrowserSetupFails(step, e, q) ==
    LET k == StepNo(step)
        bound == k > StepNo("Chrome")
        h == SetupHandler(e)
        f == Finally(bound, q)
    IN  /\ fx = "start"
        /\ log' = SetupLog(k) \o h.logs \o f.logs
        /\ driverBound' = bound
        /\ navigated' = FALSE
        /\ quitCalls' = quitCalls + f.quits
        /\ setupFail' = e
        /\ fxExit' = (IF f.raised # "none" THEN f.raised ELSE h.raised)
        /\ fx' = "done"
        /\ UNCHANGED <<test, title, testNo, pageVars, sinkVars>>

(* browser(): resumed after the test, whatever the test did *)
BrowserTeardown(q) ==
    LET f == Finally(driverBound, q)
    IN  /\ fx = "active"
        /\ test # "notrun"
        /\ log' = log \o f.logs
        /\ quitCalls' = quitCalls + f.quits
        /\ fxExit' = f.raised
        /\ fx' = "done"
        /\ UNCHANGED <<test, title, driverBound, navigated, setupFail, testNo, pageVars, sinkVars>>

(* the runner moves on to the next test: a fresh call of the fixture *)
NextTest ==
    /\ fx = "done"
    /\ testNo < MaxTests
    /\ testNo' = testNo + 1
    /\ fx' = "start"
    /\ test' = "notrun"
    /\ title' = <<>>
    /\ driverBound' = FALSE
    /\ navigated' = FALSE
    /\ quitCalls' = 0
    /\ setupFail' = "none"
    /\ fxExit' = "none"
    /\ log' = <<>>
    /\ UNCHANGED <<pageVars, sinkVars>>

(* ------------------ tests/test_google.py: the test -------------------- *)
(* Strings are sequences of characters.                                    *)
Expected == <<"G", "o", "o", "g", "l", "e">>

AssertMessage == "Google homepage title is not correct."

Cores == { Expected,
           <<"g", "o", "o", "g", "l", "e">>,
           <<"G", "o", "o", "g", "l">>,
           <<"G", "o", "o", "G", "l", "e">>,
           <<"O", "t", "h", "e", "r">>,
           <<>> }

Pads == { <<>>, <<"G">>, <<"G", "o", "o">>, <<" ">>, <<"e">> }

Titles == { a \o c \o b : a \in Pads, c \in Cores, b \in Pads }

(* `sub in s` on strings: scan s for the first place sub occurs at *)
RECURSIVE FindFrom(_, _, _)
FindFrom(sub, s, i) ==
    IF i + Len(sub) - 1 > Len(s) THEN FALSE
    ELSE IF SubSeq(s, i, i + Len(sub) - 1) = sub THEN TRUE
    ELSE FindFrom(sub, s, i + 1)

(* a variant that looks at the start of s only *)
In_Prefix(sub, s) == Len(s) >= Len(sub) /\ SubSeq(s, 1, Len(sub)) = sub

In(sub, s) == FindFrom(sub, s, 1)

(* test_google_homepage(browser), the page's title being t *)
TestGoogleHomepage(t) ==
    /\ fx = "active"
    /\ test = "notrun"
    /\ title' = t
    /\ IF In(Expected, t)
       THEN /\ log' = log \o <<Say("INFO", "Starting test"), Say("INFO", "Title contains 'Google'")>>
            /\ test' = "passed"
       ELSE /\ log' = log \o <<Say("INFO", "Starting test"),
                               Rec("ERROR", "Test failed", NoLoc, 0, 0, AssertMessage)>>
            /\ test' = "AssertionError"
    /\ UNCHANGED <<fx, driverBound, navigated, quitCalls, setupFail, fxExit, testNo,
                   pageVars, sinkVars>>

(* test_google_homepage(browser), browser.title raising e *)
TestGoogleHomepageNoTitle(e) ==
    /\ fx = "active"
    /\ test = "notrun"
    /\ log' = log \o <<Say("INFO", "Starting test"),
                       Rec("ERROR", "An unexpected error occurred", NoLoc, 0, 0, e)>>
    /\ test' = e
    /\ UNCHANGED <<fx, title, driverBound, navigated, quitCalls, setupFail, fxExit, testNo,
                   pageVars, sinkVars>>

SetupFailed == \E step \in {"Chrome", "implicitly_wait", "get"}, e \in InitErrors,
                  q \in QuitOutcomes : BrowserSetupFails(step, e, q)
TornDown == \E q \in QuitOutcomes : BrowserTeardown(q)
TestRun == \E t \in Titles : TestGoogleHomepage(t)
TestRunNoTitle == TestGoogleHomepageNoTitle("WebDriverException")

NextSession ==
    \/ BrowserSetup
    \/ SetupFailed
    \/ TestRun
    \/ TestRunNoTitle
    \/ TornDown
    \/ NextTest

SpecSession == Init /\ [][NextSession]_vars

(* ------------------- utils/logger.py: the log sink -------------------- *)
(* The clock counts seconds: the file name is datetime.now() formatted to  *)
(* the second.  A file is the sequence of its records, one cell a record;  *)
(* a record is the number of the message it carries (from 1, in the order  *)
(* of emission); the cell 0 is a gap nothing wrote.  A handler writes at   *)
(* its own position in the file it opened.                                 *)
Tick ==
    /\ clock < MaxClock
    /\ clock' = clock + 1
    /\ UNCHANGED <<handlers, files, emitted, pageVars, log, sessVars>>

(* logging.FileHandler(log_path, mode="w"): the file is created, or cut to *)
(* nothing if it is there *)
OpenW(fs, path) == (path :> <<>>) @@ fs

(* get_logger(): a new handler on the root logger, every time *)
GetLogger ==
    /\ Len(handlers) < MaxHandlers
    /\ files' = OpenW(files, clock)
    /\ handlers' = Append(handlers, [path |-> clock, pos |-> 0])
    /\ UNCHANGED <<clock, emitted, pageVars, log, sessVars>>

(* a handler's stream writes record m at position pos of the file *)
Write(file, pos, m) ==
    [i \in 1 .. Max(Len(file), pos + 1) |->
        IF i = pos + 1 THEN m ELSE IF i <= Len(file) THEN file[i] ELSE 0]

(* the root logger hands the record to each of its handlers in turn *)
RECURSIVE EmitTo(_, _, _)
EmitTo(fs, hs, m) ==
    IF hs = <<>> THEN fs
    ELSE EmitTo([fs EXCEPT ![Head(hs).path] = Write(@, Head(hs).pos, m)], Tail(hs), m)

(* logger.info / warning / error: one message *)
Emit ==
    /\ handlers # <<>>
    /\ emitted < MaxEmit
    /\ emitted' = emitted + 1
    /\ files' = EmitTo(files, handlers, emitted + 1)
    /\ handlers' = [i \in 1 .. Len(handlers) |-> [handlers[i] EXCEPT !.pos = @ + 1]]
    /\ UNCHANGED <<clock, pageVars, log, sessVars>>

NextLogger ==
    \/ Tick
    \/ GetLogger
    \/ Emit

SpecLogger == Init /\ [][NextLogger]_vars

(* ================ fixture, test and sink: the properties ============== *)
(* C2: the fixture calls driver.quit() exactly once on the session it      *)
(* constructed, on every path that leaves it (the test passed, failed or   *)
(* raised, or a step after the construction failed), never before it is    *)
(* left, and not at all when no session was constructed.                   *)
C2_QuitExactlyOnce ==
    /\ quitCalls <= 1
    /\ fx \in {"start", "active"} => quitCalls = 0
    /\ fx = "done" => quitCalls = (IF driverBound THEN 1 ELSE 0)
    /\ (fx = "done" /\ test # "notrun") => quitCalls = 1

C2_Witness ==
    /\ fx = "done" /\ test = "AssertionError" /\ driverBound /\ quitCalls = 1

(* C4 as stated: the test body runs only after the session was constructed *)
(* and the navigation completed; any failure of the set-up is logged as    *)
(* an error, fails the test, and the test body never runs.                 *)
C4_AnyInitFailureReported ==
    /\ (fx = "active" \/ test # "notrun") =>
           (driverBound /\ navigated /\ setupFail = "none")
    /\ setupFail # "none" =>
           /\ fx = "done" /\ test = "notrun"
           /\ Len(Select(log, "ERROR")) = 1
           /\ fxExit # "none"

(* C4 as amended: the same, but only a failure that is a                   *)
(* WebDriverException is logged as an error and turned into a test         *)
(* failure by pytest.fail; any other exception leaves the fixture as it    *)
(* is, with no error logged.  In both cases the test body never runs.      *)
C4_DriverInitFailureReported ==
    /\ (fx = "active" \/ test # "notrun") =>
           (driverBound /\ navigated /\ setupFail = "none")
    /\ setupFail # "none" =>
           /\ fx = "done" /\ test = "notrun"
           /\ fxExit # "none"
           /\ IF setupFail \in {"WebDriverException", "SessionNotCreatedException"}
              THEN /\ Len(Select(log, "ERROR")) = 1
                   /\ Select(log, "ERROR")[1].text = setupFail
                   /\ fxExit \in {"Failed", "WebDriverException"}
              ELSE /\ Select(log, "ERROR") = <<>>
                   /\ fxExit \in {setupFail, "WebDriverException"}

C4_Witness ==
    /\ fx = "done" /\ setupFail = "SessionNotCreatedException" /\ test = "notrun"
    /\ fxExit = "Failed" /\ ~driverBound

(* t holds sub as a substring *)
HasSubstring(t, sub) ==
    \E i \in 0 .. Len(t) - Len(sub) : \A k \in 1 .. Len(sub) : t[i + k] = sub[k]

(* C9: with a title read from the page, test_google_homepage passes        *)
(* exactly when the title contains "Google"; otherwise it ends with the    *)
(* AssertionError raised to the runner, the last record logged being an    *)
(* error that carries the assertion's message.                             *)
C9_TitleDecidesTest ==
    (test # "notrun" /\ test # "WebDriverException") =>
        /\ test = "passed" <=> HasSubstring(title, Expected)
        /\ test # "passed" =>
              /\ test = "AssertionError"
              /\ \E i \in 1 .. Len(log) :
                    /\ log[i].level = "ERROR" /\ log[i].text = AssertMessage
                    /\ \A j \in 1 .. Len(log) : log[j].level = "ERROR" => j = i

C9_Witness ==
    /\ test = "AssertionError"
    /\ title = <<"G", "o", "o", "G", "o", "o", "g", "l">>
    /\ ~HasSubstring(title, Expected)

(* every path a handler opened *)
Paths == { handlers[i].path : i \in 1 .. Len(handlers) }

(* C6 as stated: however often and whenever get_logger() is called, there  *)
(* is one log file; no record written to it is ever removed; and it holds  *)
(* each message emitted once, in the order of emission.                    *)
C6_OneAppendOnlyFile ==
    [][ /\ Cardinality(Paths') <= 1
        /\ \A p \in DOMAIN files :
              /\ p \in DOMAIN files'
              /\ Len(files'[p]) >= Len(files[p])
              /\ SubSeq(files'[p], 1, Len(files[p])) = files[p]
        /\ \A p \in DOMAIN files' : files'[p] = [i \in 1 .. emitted' |-> i] ]_vars

(* ===================== BasePage: the properties ======================= *)
Count(s, x) == Len(SelectSeq(s, LAMBDA c : c = x))

Last(s) == s[Len(s)]

(* the failures click is said to retry *)
Transient == {"TimeoutException", "ElementClickInterceptedException",
              "StaleElementReferenceException"}

Done == pc \in {"returned", "raised"}

(* every wait of the click so far ended in a timeout *)
NeverClickable == \A i \in 1 .. Len(outcomes) : outcomes[i] = "TimeoutException"

(* C1: a click on a locator that is never clickable within the wait bound  *)
(* never returns normally; when it ends it has raised, after one wait per  *)
(* retry, and the warnings it logged are exactly those numbered            *)
(* 1/retries .. retries/retries, in that order (none when retries <= 0).   *)
C1_ClickExhaustsRetries ==
    (op.name = "click" /\ NeverClickable) =>
        /\ pc # "returned"
        /\ Done =>
            /\ exc = "Exception"
            /\ Count(calls, "wait") = Max(op.retries, 0)
            /\ Count(calls, "click") = 0
            /\ Select(log, "WARNING") =
                 [i \in 1 .. op.retries |->
                    Rec("WARNING", "Click failed", op.locator, i, op.retries, "TimeoutException")]
            /\ Len(log) = Max(op.retries, 0) + 1
            /\ Last(log).level = "ERROR"

C1_Witness ==
    /\ op.name = "click" /\ pc = "raised" /\ NeverClickable
    /\ op.retries = MaxRetries /\ Len(outcomes) = MaxRetries
    /\ Len(Select(log, "WARNING")) = MaxRetries

(* C3 as stated: is_element_present always returns, True when the element  *)
(* is found and False otherwise, whatever the driver's lookup does.        *)
C3_NeverRaises ==
    op.name = "is_element_present" =>
        /\ pc = "returned"
        /\ result = (IF Valid(op.locator) /\ op.st # "absent" THEN "True" ELSE "False")

(* C5 as stated: an operation that raises to its caller has logged that    *)
(* failure first, and every further attempt of a click follows a logged    *)
(* warning.                                                                *)
C5_FailuresLoggedFirst ==
    /\ pc = "raised" => (log # <<>> /\ Last(log).level \in {"ERROR", "WARNING"})
    /\ (op.name = "click" /\ pc = "click_for") => Len(Select(log, "WARNING")) = Len(outcomes)

(* C7: handle_alert never raises.  With no alert it returns None and       *)
(* neither accepts nor dismisses; with an alert it returns the alert's     *)
(* text, having accepted it if accept is true and dismissed it if not.     *)
C7_HandleAlert ==
    op.name = "handle_alert" =>
        /\ pc = "returned"
        /\ IF alertSeen = NoAlert
           THEN /\ result = None
                /\ Count(calls, "accept") = 0 /\ Count(calls, "dismiss") = 0
           ELSE /\ result = alertSeen
                /\ Last(calls) = (IF op.accept THEN "accept" ELSE "dismiss")
                /\ Count(calls, "accept") = (IF op.accept THEN 1 ELSE 0)
                /\ Count(calls, "dismiss") = (IF op.accept THEN 0 ELSE 1)
                /\ Count(calls, "text") = 1
                /\ alert = NoAlert

C7_Witness ==
    /\ op.name = "handle_alert" /\ pc = "returned"
    /\ alertSeen = NoAlert /\ result = None /\ calls = <<"switch_to.alert">>

(* C8: enter_text on a locator with no element within the wait bound       *)
(* raises after one wait, has logged one error that names the locator and  *)
(* has called neither clear nor send_keys; with an element, clear is       *)
(* called exactly when clear is true, and then before send_keys.           *)
C8_EnterText ==
    (op.name = "enter_text" /\ Valid(op.locator)) =>
        IF op.st = "absent"
        THEN /\ pc = "raised" /\ exc = "Exception"
             /\ calls = <<"wait">>
             /\ Len(log) = 1
             /\ log[1].level = "ERROR" /\ log[1].locator = op.locator
        ELSE /\ Count(calls, "wait") = 1
             /\ Count(calls, "clear") = (IF op.clear THEN 1 ELSE 0)
             /\ Count(calls, "send_keys") <= 1
             /\ op.clear => calls[2] = "clear"
             /\ pc = "returned" => (Last(calls) = "send_keys" /\ Select(log, "ERROR") = <<>>)

C8_Witness ==
    /\ op.name = "enter_text" /\ Valid(op.locator) /\ op.st = "absent"
    /\ pc = "raised" /\ op.clear

(* C10: click never makes more attempts than retries; only a timeout, an   *)
(* intercepted click or a stale element is followed by another attempt;    *)
(* an attempt that succeeds after k-1 such failures makes click return at  *)
(* once, with k-1 warnings and no error logged; click returns only after   *)
(* a click that succeeded, hence never when retries <= 0.                  *)
C10_ClickMasksTransient ==
    op.name = "click" =>
        LET n == Len(outcomes)
        IN  /\ Count(calls, "wait") = n
            /\ n <= Max(op.retries, 0)
            /\ \A i \in 1 .. n - 1 : outcomes[i] \in Transient
            /\ (n > 0 /\ outcomes[n] = "ok") =>
                  /\ pc = "returned"
                  /\ Len(Select(log, "WARNING")) = n - 1
                  /\ Select(log, "ERROR") = <<>>
                  /\ Count(calls, "click") >= 1 /\ Last(calls) = "click"
            /\ (n > 0 /\ outcomes[n] \in Transient) =>
                  \/ pc = "click_for" /\ Len(Select(log, "WARNING")) = n
                  \/ pc = "raised" /\ exc = "Exception" /\ n = op.retries
            /\ pc = "returned" => (n > 0 /\ outcomes[n] = "ok")
            /\ (op.retries <= 0 /\ Done) => (pc = "raised" /\ calls = <<>>)

C10_Witness ==
    /\ op.name = "click" /\ pc = "returned" /\ Len(outcomes) = MaxRetries
    /\ outcomes[1] = "ElementClickInterceptedException"
    /\ outcomes[2] = "StaleElementReferenceException"
    /\ Len(Select(log, "WARNING")) = MaxRetries - 1

====
